---- MODULE Spec2Model ----
(***************************************************************************)
(* Model of mdman's synchronization reconciler                             *)
(* (service/src/watcher.rs, FileWatcher) with the mapping store            *)
(* (service/src/config.rs) and the disk it works on.                       *)
(*                                                                         *)
(* Paths are canonical absolute file names; a HashMap is a function whose  *)
(* DOMAIN is its key set; a Vec is a sequence; file content (Vec<u8>) is a *)
(* string, "" being the empty file.                                        *)
(***************************************************************************)
EXTENDS Integers, Sequences, FiniteSets, TLC

VARIABLES
    config,              \* FileWatcher.config.mappings : source -> Vec of destinations
    reverse_mappings,    \* FileWatcher.reverse_mappings : destination -> source
    last_known_content,  \* FileWatcher.last_known_content : source -> bytes
    recently_synced,     \* FileWatcher.recently_synced : destination -> seconds
                         \*   elapsed since the Instant stored for it
    files,               \* the disk: existing path -> bytes
    store,               \* the persisted mapping (config.json)
    last_event,          \* the handling that has just returned to the watch loop
                         \*   (NoEvent while the loop waits in rx.recv())
    queue,               \* the channel rx of run(): events the watch engine has
                         \*   sent and the loop has not received yet
    watcher,             \* the paths run() has registered a watch on
    cli                  \* the command of the mdman CLI that ran last, with
                         \*   what it returned

vars == <<config, reverse_mappings, last_known_content, recently_synced,
          files, store, last_event, queue, watcher, cli>>

-----------------------------------------------------------------------------
(* Bounds of the model *)

MaxAge == 5

Paths == {"a", "b", "c"}
Bytes == {"", "x", "y"}

(* Mappings the store may hold when the watcher starts. *)
InitStores ==
    { [s \in {"a"} |-> <<"b", "c">>],
      [s \in {"a"} |-> <<"b", "b">>] }

(* The most destinations the store lists when add_mapping is called on it. *)
MaxDests == 2

-----------------------------------------------------------------------------
(* HashMap and Vec helpers *)

EmptyMap == [k \in {} |-> k]

Range(f) == {f[k] : k \in DOMAIN f}

insert(m, k, v) == [x \in DOMAIN m \cup {k} |-> IF x = k THEN v ELSE m[x]]

remove(m, k) == [x \in DOMAIN m \ {k} |-> m[x]]

RECURSIVE remove_all(_, _)
remove_all(m, ks) ==
    IF ks = <<>> THEN m ELSE remove_all(remove(m, Head(ks)), Tail(ks))

(* Every order in which a HashMap may iterate over the key set S. *)
Orders(S) == {o \in [1..Cardinality(S) -> S] : Range(o) = S}

-----------------------------------------------------------------------------
(* Program constants *)

PurgeWindow == 5
SuppressWindow == 2
SyncTimeout == 3000
WarnTimeout == 0

-----------------------------------------------------------------------------
(* Faults of the environment during one event: paths whose read fails,     *)
(* paths whose write fails, a failing notifier, a failing load or save of  *)
(* the mapping store.                                                      *)

NoFault == [read |-> {}, write |-> {}, notify |-> FALSE, load |-> FALSE, save |-> FALSE]

ReadFaults == {[NoFault EXCEPT !.read = {p}] : p \in {"a", "b"}}
WriteFaults == {[NoFault EXCEPT !.write = {p}] : p \in {"b"}}
NotifyFault == [NoFault EXCEPT !.notify = TRUE]
LoadFault == [NoFault EXCEPT !.load = TRUE]
SaveFault == [NoFault EXCEPT !.save = TRUE]

(* The faults that can show in an event: a Remove event reads and writes   *)
(* no file, a Create or Modify event never saves the store, any other      *)
(* event returns before the store is loaded.                               *)
EventFaults(ev) ==
    IF ev.err THEN {NoFault}
    ELSE IF ev.kind = "Remove" THEN {NoFault, NotifyFault, SaveFault}
    ELSE IF ev.kind = "Modify"
         THEN {NoFault, NotifyFault} \cup ReadFaults \cup WriteFaults
    ELSE IF ev.kind = "Create" THEN {NoFault, LoadFault}
    ELSE {NoFault}

(* At startup only the read of a source can fail without ending the run. *)
StartFaults == {NoFault} \cup ReadFaults

-----------------------------------------------------------------------------
(* The disk *)

exists(fs, p) == p \in DOMAIN fs

(* Path::canonicalize succeeds exactly on an existing file; the paths of   *)
(* the model are canonical already, so it returns the path itself.         *)
canonicalize_ok(fs, p) == exists(fs, p)

(* fs::read(dest).unwrap_or_default() *)
read_or_default(fs, p, F) == IF p \in F.read \/ ~exists(fs, p) THEN "" ELSE fs[p]

-----------------------------------------------------------------------------
(* The watcher's state and the world it acts on, as one record *)

World(cfg, rev, lkc, rs, fs, st) ==
    [config |-> cfg, reverse_mappings |-> rev, last_known_content |-> lkc,
     recently_synced |-> rs, files |-> fs, store |-> st]

Current == World(config, reverse_mappings, last_known_content,
                 recently_synced, files, store)

-----------------------------------------------------------------------------
(* Notifier calls.  A call is recorded whether or not show() succeeds;     *)
(* ok tells whether it did.                                                *)

Notification(type, subject, source, dests, counts, urgency, timeout, F) ==
    [type |-> type, subject |-> subject, source |-> source, dests |-> dests,
     synced |-> counts[1], desynced |-> counts[2],
     urgency |-> urgency, timeout |-> timeout, ok |-> ~F.notify]

(* send_sync_notification: the message is empty, and nothing is shown,     *)
(* only when both counts are zero.  No urgency is set: the default Normal. *)
send_sync_notification(source, synced_files, desynced_files, F) ==
    IF Len(synced_files) = 0 /\ Len(desynced_files) = 0
    THEN <<>>
    ELSE << Notification("sync", source, source, <<>>,
                         <<Len(synced_files), Len(desynced_files)>>,
                         "normal", SyncTimeout, F) >>

(* Mutant of warn_desync: the warning is shown as a sync summary is. *)
warn_desync_as_summary(dest_path, source_path, F) ==
    << Notification("desync", dest_path, source_path, <<>>, <<0, 0>>,
                    "normal", SyncTimeout, F) >>

warn_desync(dest_path, source_path, F) ==
    << Notification("desync", dest_path, source_path, <<>>, <<0, 0>>,
                    "critical", WarnTimeout, F) >>

warn_source_deleted(source_path, destinations, F) ==
    << Notification("source_deleted", source_path, source_path, destinations,
                    <<0, 0>>, "critical", WarnTimeout, F) >>

(* A notifier call made through `?`: Err when some call failed. *)
shown(notes) == \A i \in 1..Len(notes) : notes[i].ok

-----------------------------------------------------------------------------
(* update_reverse_mappings: clear, then insert every (dest -> source) in   *)
(* the iteration order of the mapping; a destination listed under several  *)
(* sources keeps the source inserted last.                                 *)

RECURSIVE insert_dests(_, _, _)
insert_dests(rev, destinations, source) ==
    IF destinations = <<>> THEN rev
    ELSE insert_dests(insert(rev, Head(destinations), source),
                      Tail(destinations), source)

RECURSIVE insert_sources(_, _, _)
insert_sources(rev, mappings, order) ==
    IF order = <<>> THEN rev
    ELSE insert_sources(insert_dests(rev, mappings[Head(order)], Head(order)),
                        mappings, Tail(order))

(* Mutant of update_reverse_mappings: only the first destination of every  *)
(* source is indexed.                                                      *)
update_reverse_first_only(mappings, order) ==
    insert_sources(EmptyMap,
                   [s \in DOMAIN mappings |->
                       IF mappings[s] = <<>> THEN <<>> ELSE <<Head(mappings[s])>>],
                   order)

update_reverse_mappings(mappings, order) ==
    insert_sources(EmptyMap, mappings, order)

-----------------------------------------------------------------------------
(* sync_file *)

(* last_known_content.get(source).cloned().unwrap_or_else(Vec::new) *)
old_content(lkc, source) == IF source \in DOMAIN lkc THEN lkc[source] ELSE ""

(* Mutant of was_in_sync: the test without its is_empty() clause. *)
was_in_sync_strict(dest_content, old_source_content) ==
    dest_content = old_source_content

(* dest_content == old_source_content || old_source_content.is_empty() *)
was_in_sync(dest_content, old_source_content) ==
    dest_content = old_source_content \/ old_source_content = ""

(* Mutant of write_dest: the write without the Recency Guard entry. *)
write_dest_unrecorded(w, dest, content) ==
    [w EXCEPT !.files = insert(@, dest, content)]

(* fs::write(dest, content) followed by                                   *)
(* recently_synced.insert(dest, Instant::now()): no time has elapsed since *)
(* the stored Instant.                                                     *)
write_dest(w, dest, content) ==
    [w EXCEPT !.files = insert(@, dest, content),
              !.recently_synced = insert(@, dest, 0)]

(* The loop over the destinations of one source.  r carries the world and  *)
(* the synced_files and desynced_files vectors; failed lists the           *)
(* destinations whose write returned Err.                                  *)
RECURSIVE sync_dests(_, _, _, _, _)
sync_dests(r, destinations, old_source_content, source_content, F) ==
    IF destinations = <<>> THEN r
    ELSE
      LET dest == Head(destinations)
          dest_content == read_or_default(r.w.files, dest, F)
          wrote == [r EXCEPT !.w = write_dest(r.w, dest, source_content),
                             !.synced = Append(@, dest)]
          failed == [r EXCEPT !.failed = Append(@, dest)]
          next ==
            IF exists(r.w.files, dest)
            THEN IF was_in_sync(dest_content, old_source_content)
                 THEN IF dest \in F.write THEN failed ELSE wrote
                 ELSE [r EXCEPT !.desynced = Append(@, dest)]
            ELSE IF dest \in F.write THEN failed ELSE wrote
      IN sync_dests(next, Tail(destinations), old_source_content,
                    source_content, F)

(* The handling of one path of an event: the world before and after it,    *)
(* the notifier calls it made, what it returned, and for a propagation the *)
(* values sync_file computed.                                              *)
Step(path, class, before, after, notes, result) ==
    [path |-> path, class |-> class, before |-> before, after |-> after,
     notes |-> notes, result |-> result,
     propagated |-> FALSE, had_snapshot |-> FALSE, old |-> "", new |-> "",
     synced |-> <<>>, desynced |-> <<>>, failed |-> <<>>]

(* Mutant of store_snapshot: only the first content read is kept. *)
store_snapshot_once(lkc, source, content) ==
    IF source \in DOMAIN lkc THEN lkc ELSE insert(lkc, source, content)

(* last_known_content.insert(canonical_source, source_content) *)
store_snapshot(lkc, source, content) == insert(lkc, source, content)

(* sync_file once the source has been read: the snapshot, the loop over    *)
(* the destinations, the summary.                                          *)
propagate(w, source_path, source_content, F) ==
    LET old_source_content == old_content(w.last_known_content, source_path)
        w1 == [w EXCEPT !.last_known_content =
                            store_snapshot(@, source_path, source_content)]
        r == sync_dests([w |-> w1, synced |-> <<>>, desynced |-> <<>>,
                         failed |-> <<>>],
                        w.config[source_path], old_source_content,
                        source_content, F)
        notes == send_sync_notification(source_path, r.synced, r.desynced, F)
    IN [ Step(source_path, "sync", w, r.w, notes,
              IF shown(notes) THEN "Ok" ELSE "Err")
         EXCEPT !.propagated = TRUE,
                !.had_snapshot = source_path \in DOMAIN w.last_known_content,
                !.old = old_source_content,
                !.new = source_content,
                !.synced = r.synced,
                !.desynced = r.desynced,
                !.failed = r.failed ]

(* Mutant of sync_file: a source that cannot be read is propagated as the  *)
(* empty content, as an unreadable destination is compared.                *)
sync_file_reading_default(w, source_path, F) ==
    IF ~canonicalize_ok(w.files, source_path)
    THEN Step(source_path, "sync", w, w, <<>>, "Err")
    ELSE IF source_path \notin DOMAIN w.config
    THEN Step(source_path, "sync", w, w, <<>>, "Ok")
    ELSE propagate(w, source_path, read_or_default(w.files, source_path, F), F)

(* canonicalize()? - mappings.get - fs::read()? - the propagation *)
sync_file(w, source_path, F) ==
    IF ~canonicalize_ok(w.files, source_path)
    THEN Step(source_path, "sync", w, w, <<>>, "Err")
    ELSE IF source_path \notin DOMAIN w.config
    THEN Step(source_path, "sync", w, w, <<>>, "Ok")
    ELSE IF source_path \in F.read
    THEN Step(source_path, "sync", w, w, <<>>, "Err")
    ELSE propagate(w, source_path, w.files[source_path], F)

-----------------------------------------------------------------------------
(* handle_event *)

(* Mutant of recently: the purge window used as the suppression window. *)
recently_within_purge(rs, path) == path \in DOMAIN rs /\ rs[path] < PurgeWindow

(* sync_time.elapsed() < Duration::from_secs(2) for an entry of the guard *)
recently(rs, path) == path \in DOMAIN rs /\ rs[path] < SuppressWindow

(* Mutant of retain_recent: every entry is purged at the start of an       *)
(* event.                                                                  *)
retain_none(rs) == [p \in {} |-> 0]

(* Mutant of retain_recent: an entry 5 seconds old is kept. *)
retain_recent_inclusive(rs) ==
    [p \in {q \in DOMAIN rs : rs[q] <= PurgeWindow} |-> rs[p]]

(* recently_synced.retain(|_, sync_time| now - sync_time < 5 s) *)
retain_recent(rs) ==
    [p \in {q \in DOMAIN rs : rs[q] < PurgeWindow} |-> rs[p]]

(* Mutant of handle_removed: the destinations of the deleted source are    *)
(* deleted with it, as the remove command of the CLI does.                 *)
handle_removed_deleting(w, path, F) ==
    IF path \in DOMAIN w.config
    THEN LET destinations == w.config[path]
             notes == warn_source_deleted(path, destinations, F)
             mappings == remove(w.config, path)
             after == [w EXCEPT !.config = mappings,
                                !.store = IF F.save THEN @ ELSE mappings,
                                !.reverse_mappings = remove_all(@, destinations),
                                !.files = remove_all(@, destinations)]
         IN IF shown(notes)
            THEN Step(path, "source_deleted", w, after, notes, "Ok")
            ELSE Step(path, "source_deleted", w, w, notes, "Err")
    ELSE Step(path, "removed_other", w, w, <<>>, "Ok")

(* Mutant of handle_removed: the removal of a destination is reported as a *)
(* desync.                                                                 *)
handle_removed_warning(w, path, F) ==
    IF path \in DOMAIN w.config
    THEN LET destinations == w.config[path]
             notes == warn_source_deleted(path, destinations, F)
             mappings == remove(w.config, path)
             after == [w EXCEPT !.config = mappings,
                                !.store = IF F.save THEN @ ELSE mappings,
                                !.reverse_mappings = remove_all(@, destinations)]
         IN IF shown(notes)
            THEN Step(path, "source_deleted", w, after, notes, "Ok")
            ELSE Step(path, "source_deleted", w, w, notes, "Err")
    ELSE IF path \in DOMAIN w.reverse_mappings
    THEN LET notes == warn_desync(path, w.reverse_mappings[path], F)
         IN Step(path, "removed_other", w, w, notes,
                 IF shown(notes) THEN "Ok" ELSE "Err")
    ELSE Step(path, "removed_other", w, w, <<>>, "Ok")

(* One path of a Remove event. *)
handle_removed(w, path, F) ==
    IF path \in DOMAIN w.config
    THEN LET destinations == w.config[path]
             notes == warn_source_deleted(path, destinations, F)
             mappings == remove(w.config, path)
             after == [w EXCEPT !.config = mappings,
                                !.store = IF F.save THEN @ ELSE mappings,
                                !.reverse_mappings = remove_all(@, destinations)]
         IN IF shown(notes)
            THEN Step(path, "source_deleted", w, after, notes, "Ok")
            ELSE Step(path, "source_deleted", w, w, notes, "Err")
    ELSE Step(path, "removed_other", w, w, <<>>, "Ok")

(* Mutant of handle_changed: a desynced destination is brought back to its *)
(* source's content when the warning is raised.                            *)
handle_changed_correcting(w, path, F) ==
    IF path \in DOMAIN w.config
    THEN sync_file(w, path, F)
    ELSE IF path \in DOMAIN w.reverse_mappings
    THEN IF recently(w.recently_synced, path)
         THEN Step(path, "suppressed", w, w, <<>>, "Ok")
         ELSE LET source == w.reverse_mappings[path]
                  notes == warn_desync(path, source, F)
                  corrected ==
                      IF exists(w.files, source)
                      THEN [w EXCEPT !.files = insert(@, path, w.files[source])]
                      ELSE w
              IN Step(path, "desync", w, corrected, notes,
                      IF shown(notes) THEN "Ok" ELSE "Err")
    ELSE Step(path, "untracked", w, w, <<>>, "Ok")

(* Mutant of handle_changed: the Reverse Index is consulted before the     *)
(* mapping.                                                                *)
handle_changed_reverse_first(w, path, F) ==
    IF path \in DOMAIN w.reverse_mappings
    THEN IF recently(w.recently_synced, path)
         THEN Step(path, "suppressed", w, w, <<>>, "Ok")
         ELSE LET notes == warn_desync(path, w.reverse_mappings[path], F)
              IN Step(path, "desync", w, w, notes,
                      IF shown(notes) THEN "Ok" ELSE "Err")
    ELSE IF path \in DOMAIN w.config
    THEN sync_file(w, path, F)
    ELSE Step(path, "untracked", w, w, <<>>, "Ok")

(* Mutant of handle_changed: the destination of a desync warning gets a    *)
(* Recency Guard entry.                                                    *)
handle_changed_recording(w, path, F) ==
    IF path \in DOMAIN w.config
    THEN sync_file(w, path, F)
    ELSE IF path \in DOMAIN w.reverse_mappings
    THEN IF recently(w.recently_synced, path)
         THEN Step(path, "suppressed", w, w, <<>>, "Ok")
         ELSE LET notes == warn_desync(path, w.reverse_mappings[path], F)
                  recorded == [w EXCEPT !.recently_synced = insert(@, path, 0)]
              IN Step(path, "desync", w, recorded, notes,
                      IF shown(notes) THEN "Ok" ELSE "Err")
    ELSE Step(path, "untracked", w, w, <<>>, "Ok")

(* One path of a Create or Modify event. *)
handle_changed(w, path, F) ==
    IF path \in DOMAIN w.config
    THEN sync_file(w, path, F)
    ELSE IF path \in DOMAIN w.reverse_mappings
    THEN IF recently(w.recently_synced, path)
         THEN Step(path, "suppressed", w, w, <<>>, "Ok")
         ELSE LET notes == warn_desync(path, w.reverse_mappings[path], F)
              IN Step(path, "desync", w, w, notes,
                      IF shown(notes) THEN "Ok" ELSE "Err")
    ELSE Step(path, "untracked", w, w, <<>>, "Ok")

handle_path(w, kind, path, F) ==
    IF kind = "Remove" THEN handle_removed(w, path, F)
    ELSE handle_changed(w, path, F)

(* What last_event keeps of a step: all but the world after it, which is   *)
(* the world before the next step, or the state the event ends in.         *)
Logged(s) ==
    [path |-> s.path, class |-> s.class, before |-> s.before,
     notes |-> s.notes, result |-> s.result,
     propagated |-> s.propagated, had_snapshot |-> s.had_snapshot,
     old |-> s.old, new |-> s.new,
     synced |-> s.synced, desynced |-> s.desynced, failed |-> s.failed]

(* for path in event.paths: an Err returned through `?` leaves the loop. *)
RECURSIVE handle_paths(_, _, _, _, _)
handle_paths(w, kind, paths, F, steps) ==
    IF paths = <<>> THEN [w |-> w, steps |-> steps, result |-> "Ok"]
    ELSE LET s == handle_path(w, kind, Head(paths), F)
         IN IF s.result = "Err"
            THEN [w |-> s.after, steps |-> Append(steps, Logged(s)), result |-> "Err"]
            ELSE handle_paths(s.after, kind, Tail(paths), F, Append(steps, Logged(s)))

Handled == {"Create", "Modify", "Remove"}

(* The reload phase of handle_event: Config::load, update_reverse_mappings *)
(* and the purge of the Recency Guard.                                     *)
reload(w, order) ==
    [w EXCEPT !.config = w.store,
              !.reverse_mappings = update_reverse_mappings(w.store, order),
              !.recently_synced = retain_recent(@)]

(* Mutant of handle_event: a store that cannot be loaded counts as an      *)
(* empty one.                                                              *)
handle_event_default_store(w, ev, F, order) ==
    IF ev.err \/ ev.kind \notin Handled
    THEN [w |-> w, steps |-> <<>>,
          result |-> IF ev.err THEN "Err" ELSE "Ok", loaded |-> FALSE]
    ELSE
      LET st == IF F.load THEN EmptyMap ELSE w.store
          w1 == [w EXCEPT !.config = st,
                          !.reverse_mappings = EmptyMap,
                          !.recently_synced = retain_recent(@)]
          r == handle_paths(IF F.load THEN w1
                            ELSE [w1 EXCEPT !.reverse_mappings =
                                      update_reverse_mappings(st, order)],
                            ev.kind, ev.paths, F, <<>>)
      IN [w |-> r.w, steps |-> r.steps, result |-> r.result, loaded |-> ~F.load]

(* handle_event(event): ev.err is an Err from the watch backend; order is  *)
(* the iteration order of the freshly loaded mapping.                      *)
handle_event(w, ev, F, order) ==
    IF ev.err \/ ev.kind \notin Handled \/ F.load
    THEN [w |-> w, steps |-> <<>>,
          result |-> IF ev.err \/ (ev.kind \in Handled /\ F.load) THEN "Err" ELSE "Ok",
          loaded |-> FALSE]
    ELSE
      LET r == handle_paths(reload(w, order), ev.kind, ev.paths, F, <<>>)
      IN [w |-> r.w, steps |-> r.steps, result |-> r.result, loaded |-> TRUE]

-----------------------------------------------------------------------------
(* Events the watch engine may deliver *)

Event(err, kind, paths) == [err |-> err, kind |-> kind, paths |-> paths]

(* Events of one path, and events of two paths (a rename carries both     *)
(* names; the watch engine may also batch two changes).                    *)
Events ==
    {Event(FALSE, k, <<p>>) : k \in {"Modify", "Remove"}, p \in Paths}
    \cup {Event(FALSE, "Create", <<"a">>), Event(FALSE, "Access", <<"a">>),
          Event(TRUE, "Error", <<>>)}
    \cup {Event(FALSE, "Modify", q) : q \in {<<"a", "c">>, <<"a", "b">>, <<"b", "a">>}}
    \cup {Event(FALSE, "Remove", q) : q \in {<<"a", "c">>, <<"b", "a">>}}

-----------------------------------------------------------------------------
(* Initial state: FileWatcher::new() on some store and some disk.  A       *)
(* source gets a snapshot when it exists and its read succeeds.  new()     *)
(* registers no watch, and no command of the CLI has run.                  *)

NoCommand == [command |-> "none"]

Tracked(mappings) ==
    DOMAIN mappings \cup UNION {Range(mappings[s]) : s \in DOMAIN mappings}

(* last_event: the event, the faults met, the world handle_event started  *)
(* in, its steps, what it returned, whether the store was loaded, and      *)
(* whether the event repeats the one handled just before it.               *)
Handling(ev, F, start, r, again) ==
    [event |-> ev, fault |-> F, start |-> start, steps |-> r.steps,
     result |-> r.result, loaded |-> r.loaded, again |-> again]

NoEvent ==
    Handling(Event(FALSE, "None", <<>>), NoFault,
             World(EmptyMap, EmptyMap, EmptyMap, EmptyMap, EmptyMap, EmptyMap),
             [steps |-> <<>>, result |-> "Ok", loaded |-> FALSE], FALSE)

new_snapshots(mappings, fs, F) ==
    [s \in {k \in DOMAIN mappings : exists(fs, k) /\ k \notin F.read} |-> fs[s]]

Init ==
    /\ store \in InitStores
    /\ files \in UNION {[D -> Bytes] : D \in SUBSET Tracked(store)}
    /\ config = store
    /\ \E order \in Orders(DOMAIN store) :
           reverse_mappings = update_reverse_mappings(store, order)
    /\ \E F \in StartFaults : last_known_content = new_snapshots(store, files, F)
    /\ recently_synced = EmptyMap
    /\ last_event = NoEvent
    /\ queue = <<>>
    /\ watcher = {}
    /\ cli = NoCommand

-----------------------------------------------------------------------------
(* Actions *)

(* The watch loop takes one event and handles it. *)
HandleEvent ==
    /\ last_event = NoEvent
    /\ \E ev \in Events :
      \E F \in EventFaults(ev), order \in Orders(DOMAIN store) :
        LET r == handle_event(Current, ev, F, order)
        IN /\ config' = r.w.config
           /\ reverse_mappings' = r.w.reverse_mappings
           /\ last_known_content' = r.w.last_known_content
           /\ recently_synced' = r.w.recently_synced
           /\ files' = r.w.files
           /\ store' = r.w.store
           /\ last_event' = Handling(ev, F, Current, r, FALSE)
           /\ UNCHANGED <<queue, watcher, cli>>

(* The watch engine delivers the event just handled once more, and nothing *)
(* else happens in between: the loop handles it again.  Both handlings     *)
(* meet no fault.                                                          *)
HandleAgain ==
    /\ last_event # NoEvent
    /\ ~last_event.again
    /\ last_event.event.kind \in {"Create", "Modify"}
    /\ Len(last_event.event.paths) = 1
    /\ last_event.fault = NoFault
    /\ \E F \in {NoFault}, order \in Orders(DOMAIN store) :
        LET r == handle_event(Current, last_event.event, F, order)
        IN /\ config' = r.w.config
           /\ reverse_mappings' = r.w.reverse_mappings
           /\ last_known_content' = r.w.last_known_content
           /\ recently_synced' = r.w.recently_synced
           /\ files' = r.w.files
           /\ store' = r.w.store
           /\ last_event' = Handling(last_event.event, F, Current, r, TRUE)
           /\ UNCHANGED <<queue, watcher, cli>>

(* Mutant of Loop: run() passes the error of handle_event on with `?`. *)
LoopWhileOk ==
    /\ last_event # NoEvent
    /\ last_event.result = "Ok"
    /\ last_event' = NoEvent
    /\ UNCHANGED <<config, reverse_mappings, last_known_content,
                   recently_synced, files, store, queue, watcher, cli>>

(* handle_event has returned, Ok or Err: the loop goes back to rx.recv(). *)
Loop ==
    /\ last_event # NoEvent
    /\ last_event' = NoEvent
    /\ UNCHANGED <<config, reverse_mappings, last_known_content,
                   recently_synced, files, store, queue, watcher, cli>>

(* Someone else writes or creates a tracked file. *)
ExternalWrite ==
    \E p \in Tracked(store) \cup Tracked(config), c \in Bytes :
        /\ last_event = NoEvent
        /\ files' = insert(files, p, c)
        /\ UNCHANGED last_event
        /\ UNCHANGED <<config, reverse_mappings, last_known_content,
                       recently_synced, store, queue, watcher, cli>>

(* Someone else deletes a file. *)
ExternalRemove ==
    \E p \in DOMAIN files :
        /\ last_event = NoEvent
        /\ files' = remove(files, p)
        /\ UNCHANGED last_event
        /\ UNCHANGED <<config, reverse_mappings, last_known_content,
                       recently_synced, store, queue, watcher, cli>>

(* A second passes: every stored Instant is one second older, and so is    *)
(* every event that waits in the channel.                                  *)
Tick ==
    /\ last_event = NoEvent
    /\ \A p \in DOMAIN recently_synced : recently_synced[p] < MaxAge
    /\ \A k \in 1..Len(queue) : queue[k].age < MaxAge
    /\ recently_synced' = [p \in DOMAIN recently_synced |-> recently_synced[p] + 1]
    /\ queue' = [k \in 1..Len(queue) |-> [queue[k] EXCEPT !.age = @ + 1]]
    /\ UNCHANGED last_event
    /\ UNCHANGED <<config, reverse_mappings, last_known_content, files, store>>
    /\ UNCHANGED <<watcher, cli>>

Next ==
    HandleEvent \/ HandleAgain \/ Loop \/ ExternalWrite \/ ExternalRemove \/ Tick

Spec == Init /\ [][Next]_vars

-----------------------------------------------------------------------------
(* The watch engine and the channel.  run() registers a watch on every     *)
(* tracked path that exists; the engine sends an event for every change of *)
(* a watched file, the reconciler's own writes included.  The channel      *)
(* keeps for every event whether it reports a write of the reconciler      *)
(* (own) and the seconds elapsed since the change (age).                   *)

Pending(ev, own) == [event |-> ev, own |-> own, age |-> 0]

watched(mappings, fs) == {p \in Tracked(mappings) : exists(fs, p)}

(* The destinations written by the steps of one handling, in order. *)
RECURSIVE writes_of(_)
writes_of(steps) ==
    IF steps = <<>> THEN <<>> ELSE Head(steps).synced \o writes_of(Tail(steps))

(* The event the engine sends when somebody else writes path p. *)
delivered(p, W) ==
    IF p \in W THEN <<Pending(Event(FALSE, "Modify", <<p>>), FALSE)>> ELSE <<>>

(* Mutant of echoes: the engine reports every write, watched or not. *)
RECURSIVE echoes_all(_, _)
echoes_all(written, W) ==
    IF written = <<>> THEN <<>>
    ELSE <<Pending(Event(FALSE, "Modify", <<Head(written)>>), TRUE)>>
             \o echoes_all(Tail(written), W)

(* The events the engine sends for these writes. *)
RECURSIVE echoes(_, _)
echoes(written, W) ==
    IF written = <<>> THEN <<>>
    ELSE IF Head(written) \in W
    THEN <<Pending(Event(FALSE, "Modify", <<Head(written)>>), TRUE)>>
             \o echoes(Tail(written), W)
    ELSE echoes(Tail(written), W)

(* Mappings of the echo specification: a disjoint one and two in which the *)
(* source/destination invariant has lapsed (two sources that list each     *)
(* other, a source that lists itself).                                     *)
EchoStores ==
    { [s \in {"a"} |-> <<"b", "c">>],
      [s \in {"a", "b"} |-> IF s = "a" THEN <<"b">> ELSE <<"a">>],
      [s \in {"a"} |-> <<"a">>] }

ReceiveFaults(ev) ==
    IF ev.err THEN {NoFault}
    ELSE {NoFault, NotifyFault, LoadFault, [NoFault EXCEPT !.read = {"a"}]}

(* The watcher has started on a disk where every tracked file exists, and  *)
(* then one source has been edited: its event waits in the channel, alone  *)
(* or behind an error of the watch backend.  Nobody edits anything later.  *)
EchoInit ==
    /\ store \in EchoStores
    /\ config = store
    /\ \E order \in Orders(DOMAIN store) :
           reverse_mappings = update_reverse_mappings(store, order)
    /\ \E fs \in [Tracked(store) -> Bytes], s \in DOMAIN store, c \in Bytes :
           /\ c # fs[s]
           /\ last_known_content = new_snapshots(store, fs, NoFault)
           /\ files = insert(fs, s, c)
           /\ queue \in { <<Pending(Event(FALSE, "Modify", <<s>>), FALSE)>>,
                           <<Pending(Event(TRUE, "Error", <<>>), FALSE),
                             Pending(Event(FALSE, "Modify", <<s>>), FALSE)>> }
    /\ recently_synced = EmptyMap
    /\ last_event = NoEvent
    /\ watcher = watched(store, files)
    /\ cli = NoCommand

(* rx.recv() returns the oldest event of the channel and the loop handles  *)
(* it; the engine sends the events of the writes made.                     *)
Receive ==
    /\ last_event = NoEvent
    /\ queue # <<>>
    /\ \E F \in ReceiveFaults(Head(queue).event), order \in Orders(DOMAIN store) :
        LET ev == Head(queue).event
            r == handle_event(Current, ev, F, order)
        IN /\ config' = r.w.config
           /\ reverse_mappings' = r.w.reverse_mappings
           /\ last_known_content' = r.w.last_known_content
           /\ recently_synced' = r.w.recently_synced
           /\ files' = r.w.files
           /\ store' = r.w.store
           /\ last_event' = Handling(ev, F, Current, r, FALSE)
           /\ queue' = Tail(queue) \o echoes(writes_of(r.steps), watcher)
           /\ UNCHANGED <<watcher, cli>>

EchoNext == Receive \/ Loop \/ Tick

EchoSpec == EchoInit /\ [][EchoNext]_vars

(* The loop is a sequential program: once handle_event has returned it     *)
(* proceeds, unless run() itself ends.                                     *)
EchoLive == EchoSpec /\ WF_vars(Loop)

(* rx.recv() returns when the channel holds an event: the loop does not    *)
(* wait for ever in front of a channel that is not empty.  Only Receive    *)
(* ends such a wait, so this is weak fairness of Receive, stated through   *)
(* its enabling condition.                                                 *)
Received == []<>~(last_event = NoEvent /\ queue # <<>>)

-----------------------------------------------------------------------------
(* The removal of a source and the events that follow it *)

(* A tracked source has been deleted and the watch engine reports it. *)
HandleRemoval ==
    /\ last_event = NoEvent
    /\ \E p \in DOMAIN store :
        \E F \in EventFaults(Event(FALSE, "Remove", <<p>>)),
           order \in Orders(DOMAIN store) :
          LET ev == Event(FALSE, "Remove", <<p>>)
              r == handle_event(Current, ev, F, order)
          IN /\ ~exists(files, p)
             /\ config' = r.w.config
             /\ reverse_mappings' = r.w.reverse_mappings
             /\ last_known_content' = r.w.last_known_content
             /\ recently_synced' = r.w.recently_synced
             /\ files' = r.w.files
             /\ store' = r.w.store
             /\ last_event' = Handling(ev, F, Current, r, FALSE)
             /\ UNCHANGED <<queue, watcher, cli>>

(* The next event the loop receives after a Remove event is a create or    *)
(* modify event on a path that was tracked when the Remove event arrived;  *)
(* it meets no fault.                                                      *)
HandleFormer ==
    /\ last_event # NoEvent
    /\ last_event.event.kind = "Remove"
    /\ \E k \in {"Create", "Modify"}, p \in Tracked(last_event.start.store),
          order \in Orders(DOMAIN store) :
          LET ev == Event(FALSE, k, <<p>>)
              r == handle_event(Current, ev, NoFault, order)
          IN /\ config' = r.w.config
             /\ reverse_mappings' = r.w.reverse_mappings
             /\ last_known_content' = r.w.last_known_content
             /\ recently_synced' = r.w.recently_synced
             /\ files' = r.w.files
             /\ store' = r.w.store
             /\ last_event' = Handling(ev, NoFault, Current, r, FALSE)
             /\ UNCHANGED <<queue, watcher, cli>>

RemovalNext ==
    HandleRemoval \/ HandleFormer \/ Loop \/ ExternalWrite \/ ExternalRemove

RemovalSpec == Init /\ [][RemovalNext]_vars

(* A store in which two sources list the same destination, as add_mapping  *)
(* or an edit of the mapping file can leave it.                            *)
SharedStores == { [s \in {"a", "b"} |-> <<"c">>] }

(* The watcher has started on such a store. *)
SharedInit ==
    /\ store \in SharedStores
    /\ files \in UNION {[D -> Bytes] : D \in SUBSET Tracked(store)}
    /\ config = store
    /\ \E order \in Orders(DOMAIN store) :
           reverse_mappings = update_reverse_mappings(store, order)
    /\ \E F \in StartFaults : last_known_content = new_snapshots(store, files, F)
    /\ recently_synced = EmptyMap
    /\ last_event = NoEvent
    /\ queue = <<>>
    /\ watcher = {}
    /\ cli = NoCommand

SharedSpec == SharedInit /\ [][RemovalNext]_vars

-----------------------------------------------------------------------------
(* The mdman command line: copy, untrack and remove *)

(* What a command leaves behind: the disk, the store and its Result. *)
Done(fs, mappings, result) == [files |-> fs, store |-> mappings, result |-> result]

(* The faults that can show in a command. *)
CliFaults == {NoFault, LoadFault, SaveFault, [NoFault EXCEPT !.write = {"b"}]}

(* fs::copy(from, to) opens `to` with truncation and then copies the bytes *)
(* of `from`; when both name one file the file is truncated or is left as  *)
(* it was, as the platform does, and the call returns Ok either way.       *)
copy(fs, from, to, truncated) ==
    IF from = to
    THEN IF truncated THEN insert(fs, to, "") ELSE fs
    ELSE insert(fs, to, fs[from])

(* Config::add_mapping without its save:                                   *)
(* self.mappings.entry(source).or_default().push(dest_file)                *)
add_mapping(mappings, source, dest_file) ==
    insert(mappings, source,
           (IF source \in DOMAIN mappings THEN mappings[source] ELSE <<>>)
               \o <<dest_file>>)

(* Config::remove_mapping without its save: the file leaves every          *)
(* destination list, and a source whose list became empty leaves the map.  *)
remove_mapping(mappings, file) ==
    LET retained == [s \in DOMAIN mappings |->
                        SelectSeq(mappings[s], LAMBDA d : d # file)]
    IN [s \in {t \in DOMAIN mappings : retained[t] # <<>>} |-> retained[s]]

(* mdman copy <source> <destination>, the destination naming a file. *)
copy_and_track(fs, mappings, source, destination, F, truncated) ==
    IF ~exists(fs, source) THEN Done(fs, mappings, "Err")
    ELSE IF F.load THEN Done(fs, mappings, "Err")
    ELSE IF source \in DOMAIN mappings THEN Done(fs, mappings, "Err")
    ELSE IF \E s \in DOMAIN mappings : source \in Range(mappings[s])
    THEN Done(fs, mappings, "Err")
    ELSE IF destination \in DOMAIN mappings THEN Done(fs, mappings, "Err")
    ELSE IF \E s \in DOMAIN mappings : destination \in Range(mappings[s])
    THEN Done(fs, mappings, "Err")
    ELSE IF destination \in F.write THEN Done(fs, mappings, "Err")
    ELSE LET copied == copy(fs, source, destination, truncated)
         IN IF F.save
            THEN Done(copied, mappings, "Err")
            ELSE Done(copied, add_mapping(mappings, source, destination), "Ok")

(* mdman untrack <file>, answered with "y" or with anything else. *)
untrack_file(fs, mappings, file, yes, F) ==
    IF F.load THEN Done(fs, mappings, "Err")
    ELSE IF file \in DOMAIN mappings
    THEN IF ~yes THEN Done(fs, mappings, "Ok")
         ELSE IF F.save THEN Done(fs, mappings, "Err")
         ELSE Done(fs, remove(mappings, file), "Ok")
    ELSE IF \E s \in DOMAIN mappings : file \in Range(mappings[s])
    THEN IF ~yes THEN Done(fs, mappings, "Ok")
         ELSE IF ~canonicalize_ok(fs, file) THEN Done(fs, mappings, "Err")
         ELSE IF F.save THEN Done(fs, mappings, "Err")
         ELSE Done(fs, remove_mapping(mappings, file), "Ok")
    ELSE Done(fs, mappings, "Ok")

(* mdman remove <file>, answered with "y" or with anything else. *)
remove_file(fs, mappings, file, yes, F) ==
    IF F.load THEN Done(fs, mappings, "Err")
    ELSE IF file \in DOMAIN mappings /\ yes
    THEN LET deleted == remove_all(remove(fs, file), mappings[file])
         IN IF F.save
            THEN Done(deleted, mappings, "Err")
            ELSE Done(deleted, remove(mappings, file), "Ok")
    ELSE Done(fs, mappings, "Ok")

(* The command that ran last: its name and arguments, the disk and the     *)
(* store it started on, and its Result.                                    *)
Command(name, file, destination, fs, mappings, result) ==
    [command |-> name, file |-> file, destination |-> destination,
     before |-> [files |-> fs, store |-> mappings], result |-> result]

(* The store is empty, any file may exist, and no watcher runs. *)
CliInit ==
    /\ store = EmptyMap
    /\ \E S \in SUBSET Paths : files \in [S -> Bytes]
    /\ config = EmptyMap
    /\ reverse_mappings = EmptyMap
    /\ last_known_content = EmptyMap
    /\ recently_synced = EmptyMap
    /\ last_event = NoEvent
    /\ queue = <<>>
    /\ watcher = {}
    /\ cli = NoCommand

Copy ==
    \E source \in Paths, destination \in Paths, F \in CliFaults,
       truncated \in BOOLEAN :
        LET r == copy_and_track(files, store, source, destination, F, truncated)
        IN /\ files' = r.files
           /\ store' = r.store
           /\ cli' = Command("copy", source, destination, files, store, r.result)
           /\ UNCHANGED <<config, reverse_mappings, last_known_content,
                          recently_synced, last_event, queue, watcher>>

Untrack ==
    \E file \in Paths, yes \in BOOLEAN, F \in CliFaults :
        LET r == untrack_file(files, store, file, yes, F)
        IN /\ files' = r.files
           /\ store' = r.store
           /\ cli' = Command("untrack", file, file, files, store, r.result)
           /\ UNCHANGED <<config, reverse_mappings, last_known_content,
                          recently_synced, last_event, queue, watcher>>

RemoveFile ==
    \E file \in Paths, yes \in BOOLEAN, F \in CliFaults :
        LET r == remove_file(files, store, file, yes, F)
        IN /\ files' = r.files
           /\ store' = r.store
           /\ cli' = Command("remove", file, file, files, store, r.result)
           /\ UNCHANGED <<config, reverse_mappings, last_known_content,
                          recently_synced, last_event, queue, watcher>>

CliNext == Copy \/ Untrack \/ RemoveFile

CliSpec == CliInit /\ [][CliNext]_vars

-----------------------------------------------------------------------------
(* The mdman sync command *)

(* Mappings of the sync specification: one source with two destinations,   *)
(* and two sources that list the same destination.                         *)
SyncStores == { [s \in {"a"} |-> <<"b", "c">>] } \cup SharedStores

SyncFaults ==
    {NoFault, LoadFault, [NoFault EXCEPT !.read = {"a"}],
     [NoFault EXCEPT !.write = {"c"}]}

(* One call of fs::write(&dest, &content) and what it returned. *)
Written(source, dest, content, ok) ==
    [source |-> source, dest |-> dest, content |-> content, ok |-> ok]

(* Mutant of write_all: a destination that exists with other content is    *)
(* left alone.                                                             *)
RECURSIVE write_all_undrifted(_, _, _, _, _)
write_all_undrifted(r, source, content, destinations, F) ==
    IF destinations = <<>> THEN r
    ELSE LET dest == Head(destinations)
         IN IF exists(r.files, dest) /\ r.files[dest] # content
            THEN write_all_undrifted(r, source, content, Tail(destinations), F)
            ELSE IF dest \in F.write
            THEN write_all_undrifted(
                     [r EXCEPT !.error_count = @ + 1,
                               !.log = Append(@, Written(source, dest, content, FALSE))],
                     source, content, Tail(destinations), F)
            ELSE write_all_undrifted(
                     [r EXCEPT !.files = insert(@, dest, content),
                               !.synced_count = @ + 1,
                               !.log = Append(@, Written(source, dest, content, TRUE))],
                     source, content, Tail(destinations), F)

(* for dest in destinations: fs::write(&dest, &content), counted as synced *)
(* or as an error.                                                         *)
RECURSIVE write_all(_, _, _, _, _)
write_all(r, source, content, destinations, F) ==
    IF destinations = <<>> THEN r
    ELSE LET dest == Head(destinations)
         IN IF dest \in F.write
            THEN write_all([r EXCEPT !.error_count = @ + 1,
                                     !.log = Append(@, Written(source, dest, content, FALSE))],
                           source, content, Tail(destinations), F)
            ELSE write_all([r EXCEPT !.files = insert(@, dest, content),
                                     !.synced_count = @ + 1,
                                     !.log = Append(@, Written(source, dest, content, TRUE))],
                           source, content, Tail(destinations), F)

(* Mutant of sync_sources: a source that is missing or cannot be read is   *)
(* passed over without counting an error.                                  *)
RECURSIVE sync_sources_uncounted(_, _, _, _)
sync_sources_uncounted(r, mappings, order, F) ==
    IF order = <<>> THEN r
    ELSE LET source == Head(order)
         IN IF ~exists(r.files, source) \/ source \in F.read
            THEN sync_sources_uncounted(r, mappings, Tail(order), F)
            ELSE sync_sources_uncounted(write_all(r, source, r.files[source],
                                                  mappings[source], F),
                                        mappings, Tail(order), F)

(* for (source, destinations) in mappings: a source that is missing or     *)
(* cannot be read counts one error and is passed over.                     *)
RECURSIVE sync_sources(_, _, _, _)
sync_sources(r, mappings, order, F) ==
    IF order = <<>> THEN r
    ELSE LET source == Head(order)
         IN IF ~exists(r.files, source) \/ source \in F.read
            THEN sync_sources([r EXCEPT !.error_count = @ + 1],
                              mappings, Tail(order), F)
            ELSE sync_sources(write_all(r, source, r.files[source],
                                        mappings[source], F),
                              mappings, Tail(order), F)

(* sync_all_files(): the disk it leaves, the SyncStats it returns and the  *)
(* writes it made, in order.                                               *)
sync_all_files(fs, mappings, order, F) ==
    LET r0 == [files |-> fs, synced_count |-> 0, error_count |-> 0,
               log |-> <<>>, result |-> "Ok"]
    IN IF F.load THEN [r0 EXCEPT !.result = "Err"]
       ELSE sync_sources(r0, mappings, order, F)

(* The events the engine sends for the writes of the sync command that     *)
(* succeeded.                                                              *)
RECURSIVE reported(_, _)
reported(log, W) ==
    IF log = <<>> THEN <<>>
    ELSE (IF Head(log).ok THEN delivered(Head(log).dest, W) ELSE <<>>)
             \o reported(Tail(log), W)

(* The store holds a mapping, any tracked file may exist, no watcher runs. *)
SyncInit ==
    /\ store \in SyncStores
    /\ files \in UNION {[D -> Bytes] : D \in SUBSET Tracked(store)}
    /\ config = EmptyMap
    /\ reverse_mappings = EmptyMap
    /\ last_known_content = EmptyMap
    /\ recently_synced = EmptyMap
    /\ last_event = NoEvent
    /\ queue = <<>>
    /\ watcher = {}
    /\ cli = NoCommand

(* mdman sync *)
SyncAll ==
    \E F \in SyncFaults, order \in Orders(DOMAIN store) :
        LET r == sync_all_files(files, store, order, F)
        IN /\ files' = r.files
           /\ cli' = [command |-> "sync", fault |-> F,
                      before |-> [files |-> files, store |-> store],
                      after |-> r.files, result |-> r.result,
                      synced_count |-> r.synced_count,
                      error_count |-> r.error_count, log |-> r.log]
           /\ queue' = queue \o reported(r.log, watcher)
           /\ UNCHANGED <<config, reverse_mappings, last_known_content,
                          recently_synced, store, last_event, watcher>>

SyncNext == SyncAll \/ ExternalWrite \/ ExternalRemove

SyncSpec == SyncInit /\ [][SyncNext]_vars

-----------------------------------------------------------------------------
(* The watched set during a session in which files are edited and created  *)
(* and mappings are added                                                  *)

WatchStores == { EmptyMap, [s \in {"a"} |-> <<"b">>] }

(* run() has registered its watches and is about to enter the loop: any    *)
(* file may exist, tracked or not.                                         *)
WatchInit ==
    /\ store \in WatchStores
    /\ files \in UNION {[D -> Bytes] : D \in SUBSET Paths}
    /\ config = store
    /\ \E order \in Orders(DOMAIN store) :
           reverse_mappings = update_reverse_mappings(store, order)
    /\ last_known_content = new_snapshots(store, files, NoFault)
    /\ recently_synced = EmptyMap
    /\ last_event = NoEvent
    /\ queue = <<>>
    /\ watcher = watched(store, files)
    /\ cli = NoCommand

(* Somebody else writes or creates a tracked file while the channel is     *)
(* empty; the engine reports it when the path is watched.                  *)
Edit ==
    \E p \in Tracked(store), c \in Bytes :
        /\ last_event = NoEvent
        /\ queue = <<>>
        /\ exists(files, p) => files[p] # c
        /\ files' = insert(files, p, c)
        /\ queue' = queue \o delivered(p, watcher)
        /\ UNCHANGED <<config, reverse_mappings, last_known_content,
                       recently_synced, store, last_event, watcher, cli>>

(* One copy command runs during the session, while the loop waits. *)
CopyLater ==
    /\ cli = NoCommand
    /\ last_event = NoEvent
    /\ Copy

WatchNext == Receive \/ Loop \/ Edit \/ CopyLater

WatchSpec == WatchInit /\ [][WatchNext]_vars

-----------------------------------------------------------------------------
(* The mdman diff command, run after the sync command *)

(* Mappings of the diff specification: those of the sync specification and *)
(* one in which a destination is the source of another mapping.            *)
DiffStores ==
    SyncStores \cup { [s \in {"a", "b"} |-> IF s = "a" THEN <<"b">> ELSE <<"c">>] }

DiffFaults ==
    {NoFault, LoadFault, [NoFault EXCEPT !.read = {"a"}],
     [NoFault EXCEPT !.read = {"c"}]}

(* The DiffReport variants. *)
SourceMissing(source) == [report |-> "SourceMissing", source |-> source]

DestinationMissing(source, destination) ==
    [report |-> "DestinationMissing", source |-> source, destination |-> destination]

ContentDiffers(source, destination) ==
    [report |-> "ContentDiffers", source |-> source, destination |-> destination]

(* for dest in destinations: a missing destination and one whose content   *)
(* differs are reported, one that cannot be read is passed over.           *)
RECURSIVE diff_dests(_, _, _, _, _)
diff_dests(fs, source, destinations, F, diffs) ==
    IF destinations = <<>> THEN diffs
    ELSE LET dest == Head(destinations)
         IN IF ~exists(fs, dest)
            THEN diff_dests(fs, source, Tail(destinations), F,
                            Append(diffs, DestinationMissing(source, dest)))
            ELSE IF dest \in F.read
            THEN diff_dests(fs, source, Tail(destinations), F, diffs)
            ELSE IF fs[source] # fs[dest]
            THEN diff_dests(fs, source, Tail(destinations), F,
                            Append(diffs, ContentDiffers(source, dest)))
            ELSE diff_dests(fs, source, Tail(destinations), F, diffs)

(* for (source, destinations) in mappings: a missing source is reported,   *)
(* one that cannot be read is passed over.                                 *)
RECURSIVE diff_sources(_, _, _, _, _)
diff_sources(fs, mappings, order, F, diffs) ==
    IF order = <<>> THEN diffs
    ELSE LET source == Head(order)
         IN IF ~exists(fs, source)
            THEN diff_sources(fs, mappings, Tail(order), F,
                              Append(diffs, SourceMissing(source)))
            ELSE IF source \in F.read
            THEN diff_sources(fs, mappings, Tail(order), F, diffs)
            ELSE diff_sources(fs, mappings, Tail(order), F,
                              diff_dests(fs, source, mappings[source], F, diffs))

(* check_diff(None): the reports over all mappings. *)
check_diff(fs, mappings, order, F) ==
    IF F.load THEN [result |-> "Err", diffs |-> <<>>]
    ELSE [result |-> "Ok", diffs |-> diff_sources(fs, mappings, order, F, <<>>)]

DiffInit ==
    /\ store \in DiffStores
    /\ files \in UNION {[D -> Bytes] : D \in SUBSET Tracked(store)}
    /\ config = EmptyMap
    /\ reverse_mappings = EmptyMap
    /\ last_known_content = EmptyMap
    /\ recently_synced = EmptyMap
    /\ last_event = NoEvent
    /\ queue = <<>>
    /\ watcher = {}
    /\ cli = NoCommand

(* mdman diff, run after mdman sync has returned. *)
CheckDiff ==
    \E F \in DiffFaults, order \in Orders(DOMAIN store) :
        LET r == check_diff(files, store, order, F)
        IN /\ cli.command = "sync"
           /\ cli' = [command |-> "diff", fault |-> F,
                      before |-> [files |-> files, store |-> store],
                      result |-> r.result, diffs |-> r.diffs,
                      previous |-> [command |-> "sync", result |-> cli.result,
                                    synced_count |-> cli.synced_count,
                                    error_count |-> cli.error_count,
                                    changed |-> cli.after # cli.before.files,
                                    after |-> cli.after]]
           /\ UNCHANGED <<config, reverse_mappings, last_known_content,
                          recently_synced, files, store, last_event, queue,
                          watcher>>

(* Someone else writes or deletes a tracked file before the diff command   *)
(* runs.                                                                   *)
EditBetween ==
    /\ cli.command # "diff"
    /\ (ExternalWrite \/ ExternalRemove)

DiffNext == SyncAll \/ CheckDiff \/ EditBetween

DiffSpec == DiffInit /\ [][DiffNext]_vars

-----------------------------------------------------------------------------
(* Config::add_mapping and Config::remove_mapping called on the store *)

(* The entries of all destination lists: <<source, position>>. *)
Listed(mappings) ==
    UNION { {<<s, j>> : j \in 1..Len(mappings[s])} : s \in DOMAIN mappings }

(* The paths that some destination list holds. *)
Destinations(mappings) == UNION {Range(mappings[s]) : s \in DOMAIN mappings}

(* Config::add_mapping(source, destination), the destination naming a      *)
(* file: the source must canonicalize, the destination need not exist.     *)
add_mapping_saved(fs, mappings, source, destination, F) ==
    IF ~canonicalize_ok(fs, source) THEN Done(fs, mappings, "Err")
    ELSE IF F.save THEN Done(fs, mappings, "Err")
    ELSE Done(fs, add_mapping(mappings, source, destination), "Ok")

(* Config::remove_mapping(file): the file must canonicalize; the store is  *)
(* saved when an entry was removed, and the call returns whether one was.  *)
remove_mapping_saved(fs, mappings, file, F) ==
    IF ~canonicalize_ok(fs, file) THEN Done(fs, mappings, "Err")
    ELSE LET retained == remove_mapping(mappings, file)
             removed == file \in Destinations(mappings)
         IN IF ~removed THEN Done(fs, mappings, "false")
            ELSE IF F.save THEN Done(fs, mappings, "Err")
            ELSE Done(fs, retained, "true")

(* A call of one of the two, the store it was made on, and the call made   *)
(* before it.                                                              *)
Called(name, source, file, mappings, F, result, previous) ==
    [command |-> name, source |-> source, file |-> file, fault |-> F,
     before |-> mappings, result |-> result,
     previous |-> IF previous.command = "none" THEN NoCommand
                  ELSE [command |-> previous.command, file |-> previous.file,
                        before |-> previous.before, result |-> previous.result]]

(* The store is empty and any file may exist. *)
MapInit ==
    /\ store = EmptyMap
    /\ files \in UNION {[D -> {"x"}] : D \in SUBSET Paths}
    /\ config = EmptyMap
    /\ reverse_mappings = EmptyMap
    /\ last_known_content = EmptyMap
    /\ recently_synced = EmptyMap
    /\ last_event = NoEvent
    /\ queue = <<>>
    /\ watcher = {}
    /\ cli = NoCommand

AddMapping ==
    \E source \in Paths, destination \in Paths, F \in {NoFault, SaveFault} :
        LET r == add_mapping_saved(files, store, source, destination, F)
        IN /\ Cardinality(Listed(store)) < MaxDests
           /\ store' = r.store
           /\ cli' = Called("add_mapping", source, destination, store, F,
                            r.result, cli)
           /\ UNCHANGED <<config, reverse_mappings, last_known_content,
                          recently_synced, files, last_event, queue, watcher>>

RemoveMapping ==
    \E file \in Paths, F \in {NoFault, SaveFault} :
        LET r == remove_mapping_saved(files, store, file, F)
        IN /\ store' = r.store
           /\ cli' = Called("remove_mapping", file, file, store, F,
                            r.result, cli)
           /\ UNCHANGED <<config, reverse_mappings, last_known_content,
                          recently_synced, files, last_event, queue, watcher>>

MapNext == AddMapping \/ RemoveMapping

MapSpec == MapInit /\ [][MapNext]_vars

-----------------------------------------------------------------------------
(* The sync command run while the reconciler is running *)

(* The reconciler has started on a -> [b, c] with every tracked file on    *)
(* the disk and watched; nobody edits a file.                              *)
ManualInit ==
    /\ store = [s \in {"a"} |-> <<"b", "c">>]
    /\ files \in [Tracked(store) -> Bytes]
    /\ config = store
    /\ \E order \in Orders(DOMAIN store) :
           reverse_mappings = update_reverse_mappings(store, order)
    /\ last_known_content = new_snapshots(store, files, NoFault)
    /\ recently_synced = EmptyMap
    /\ last_event = NoEvent
    /\ queue = <<>>
    /\ watcher = watched(store, files)
    /\ cli = NoCommand

(* mdman sync is run once, while the loop waits. *)
SyncOnce ==
    /\ cli = NoCommand
    /\ last_event = NoEvent
    /\ SyncAll

ManualNext == SyncOnce \/ Receive \/ Loop

ManualSpec == ManualInit /\ [][ManualNext]_vars

-----------------------------------------------------------------------------
(* A copy command that runs while the reconciler handles the removal of a  *)
(* source: the handling is split where the other process can run, after    *)
(* the reload and before the paths are handled.                            *)

(* The reconciler has started on a -> [b]; any file may exist. *)
RaceInit ==
    /\ store = [s \in {"a"} |-> <<"b">>]
    /\ files \in UNION {[D -> Bytes] : D \in SUBSET Paths}
    /\ config = store
    /\ \E order \in Orders(DOMAIN store) :
           reverse_mappings = update_reverse_mappings(store, order)
    /\ last_known_content = new_snapshots(store, files, NoFault)
    /\ recently_synced = EmptyMap
    /\ last_event = NoEvent
    /\ queue = <<>>
    /\ watcher = {}
    /\ cli = NoCommand

(* handle_event has loaded the store for a Remove event on a deleted       *)
(* source and has not looked at its paths yet.                             *)
Reloaded(ev, F, start) ==
    Handling(ev, F, start, [steps |-> <<>>, result |-> "Pending", loaded |-> TRUE],
             FALSE)

BeginRemoval ==
    /\ last_event = NoEvent
    /\ \E p \in DOMAIN store, F \in {NoFault, NotifyFault, SaveFault},
          order \in Orders(DOMAIN store) :
        LET w1 == reload(Current, order)
        IN /\ ~exists(files, p)
           /\ config' = w1.config
           /\ reverse_mappings' = w1.reverse_mappings
           /\ recently_synced' = w1.recently_synced
           /\ last_event' = Reloaded(Event(FALSE, "Remove", <<p>>), F, Current)
           /\ UNCHANGED <<last_known_content, files, store, queue, watcher, cli>>

(* The rest of handle_event: the loop over the paths, on the mapping that  *)
(* was loaded.                                                             *)
FinishRemoval ==
    /\ last_event # NoEvent
    /\ last_event.result = "Pending"
    /\ LET ev == last_event.event
           F == last_event.fault
           r == handle_paths(Current, ev.kind, ev.paths, F, <<>>)
       IN /\ config' = r.w.config
          /\ reverse_mappings' = r.w.reverse_mappings
          /\ last_known_content' = r.w.last_known_content
          /\ recently_synced' = r.w.recently_synced
          /\ files' = r.w.files
          /\ store' = r.w.store
          /\ last_event' = Handling(ev, F, last_event.start,
                                    [steps |-> r.steps, result |-> r.result,
                                     loaded |-> TRUE], FALSE)
          /\ UNCHANGED <<queue, watcher, cli>>

RaceNext == BeginRemoval \/ Copy \/ FinishRemoval

RaceSpec == RaceInit /\ [][RaceNext]_vars

-----------------------------------------------------------------------------
(* Reading last_event *)

Steps == last_event.steps

(* The world after step i: the one before the next step, or the state the  *)
(* event ended in.                                                         *)
After(i) == IF i < Len(Steps) THEN Steps[i + 1].before ELSE Current

IsIn(x, seq) == \E j \in 1..Len(seq) : seq[j] = x

Changed == last_event.event.kind \in {"Create", "Modify"}

(* The steps in which sync_file read the source and ran over its           *)
(* destinations.                                                           *)
Propagations == {i \in 1..Len(Steps) : Steps[i].class = "sync" /\ Steps[i].propagated}

DestsOf(i) == Range(Steps[i].before.config[Steps[i].path])

(* The steps of a create/modify event on a destination that is no source. *)
DestinationSteps ==
    {i \in 1..Len(Steps) :
        /\ Changed
        /\ Steps[i].path \notin DOMAIN Steps[i].before.config
        /\ Steps[i].path \in DOMAIN Steps[i].before.reverse_mappings}

DesyncNotes(i) ==
    {j \in 1..Len(Steps[i].notes) : Steps[i].notes[j].type = "desync"}

(* Every notifier call of the event: <<step, position in the step>>. *)
NotePositions ==
    UNION { {<<i, j>> : j \in 1..Len(Steps[i].notes)} : i \in 1..Len(Steps) }

-----------------------------------------------------------------------------
(* C1: in a propagation of a source that has a snapshot, every destination *)
(* that existed with content different from that snapshot has the same     *)
(* content afterwards and is listed as desynced, not as synced, whatever   *)
(* the snapshot is.                                                        *)
C1_NoSilentOverwrite ==
    \A i \in Propagations :
        Steps[i].had_snapshot =>
            \A d \in DestsOf(i) :
                (exists(Steps[i].before.files, d) /\ Steps[i].before.files[d] # Steps[i].old)
                => /\ exists(After(i).files, d)
                   /\ After(i).files[d] = Steps[i].before.files[d]
                   /\ IsIn(d, Steps[i].desynced)
                   /\ ~IsIn(d, Steps[i].synced)

(* C2 as stated: a destination that existed with content equal to the      *)
(* snapshot, or whose source had no snapshot, holds the new content after  *)
(* the propagation unless its write failed.                                *)
C2_InSyncUpdated_Original ==
    \A i \in Propagations :
        \A d \in DestsOf(i) :
            ( /\ exists(Steps[i].before.files, d)
              /\ (~Steps[i].had_snapshot \/ Steps[i].before.files[d] = Steps[i].old)
              /\ ~IsIn(d, Steps[i].failed) )
            => (exists(After(i).files, d) /\ After(i).files[d] = Steps[i].new)

(* C2 amended: the same, for a destination that can be read when it is     *)
(* compared with a snapshot.                                               *)
C2_InSyncUpdated ==
    \A i \in Propagations :
        \A d \in DestsOf(i) :
            ( /\ exists(Steps[i].before.files, d)
              /\ \/ ~Steps[i].had_snapshot
                 \/ (d \notin last_event.fault.read
                     /\ Steps[i].before.files[d] = Steps[i].old)
              /\ ~IsIn(d, Steps[i].failed) )
            => (exists(After(i).files, d) /\ After(i).files[d] = Steps[i].new)

(* An existing, readable destination equal to a non-empty snapshot was     *)
(* brought to a new content that differs from the snapshot.                *)
C2_Witness ==
    \E i \in Propagations :
        \E d \in DestsOf(i) :
            /\ Steps[i].had_snapshot /\ Steps[i].old # "" /\ Steps[i].new # Steps[i].old
            /\ exists(Steps[i].before.files, d)
            /\ Steps[i].before.files[d] = Steps[i].old
            /\ d \notin last_event.fault.read
            /\ IsIn(d, Steps[i].synced)
            /\ After(i).files[d] = Steps[i].new

(* C3 as stated: a destination that did not exist exists after the         *)
(* propagation with the new content, is in the Recency Guard with no time  *)
(* elapsed, and is listed as synced.                                       *)
C3_MissingCreated_Original ==
    \A i \in Propagations :
        \A d \in DestsOf(i) :
            ~exists(Steps[i].before.files, d)
            => /\ exists(After(i).files, d)
               /\ After(i).files[d] = Steps[i].new
               /\ d \in DOMAIN After(i).recently_synced
               /\ After(i).recently_synced[d] = 0
               /\ IsIn(d, Steps[i].synced)

(* C3 amended: the same, provided the write of the destination succeeds. *)
C3_MissingCreated ==
    \A i \in Propagations :
        \A d \in DestsOf(i) :
            (~exists(Steps[i].before.files, d) /\ ~IsIn(d, Steps[i].failed))
            => /\ exists(After(i).files, d)
               /\ After(i).files[d] = Steps[i].new
               /\ d \in DOMAIN After(i).recently_synced
               /\ After(i).recently_synced[d] = 0
               /\ IsIn(d, Steps[i].synced)

(* A missing destination was created by a propagation. *)
C3_Witness ==
    \E i \in Propagations :
        \E d \in DestsOf(i) :
            /\ ~exists(Steps[i].before.files, d)
            /\ exists(After(i).files, d)
            /\ IsIn(d, Steps[i].synced)

(* C4: after a Remove event whose store was loaded and whose save did not  *)
(* fail, every path of the event that was a tracked source has exactly one *)
(* source-deleted warning naming all its destinations, is gone from the    *)
(* in-memory mapping and from the store, and none of its destinations is   *)
(* in the Reverse Index.                                                   *)
C4_SourceRemoval ==
    (last_event.event.kind = "Remove" /\ last_event.loaded /\ ~last_event.fault.save)
    => \A k \in 1..Len(last_event.event.paths) :
         LET p == last_event.event.paths[k]
             tracked == last_event.start.store
             warnings == {n \in NotePositions :
                             /\ Steps[n[1]].notes[n[2]].type = "source_deleted"
                             /\ Steps[n[1]].notes[n[2]].subject = p
                             /\ Steps[n[1]].notes[n[2]].dests = tracked[p]}
         IN p \in DOMAIN tracked
            => /\ Cardinality(warnings) = 1
               /\ p \notin DOMAIN config
               /\ p \notin DOMAIN store
               /\ \A d \in Range(tracked[p]) : d \notin DOMAIN reverse_mappings

(* C5: a Remove event leaves the whole disk as it was, whatever its paths  *)
(* are and whatever fault it meets.                                        *)
C5_RemoveKeepsFiles ==
    last_event.event.kind = "Remove" => files = last_event.start.files

(* A Remove event on a tracked source retracted the mapping while the      *)
(* destinations exist on disk.                                             *)
C5_Witness ==
    /\ last_event.event.kind = "Remove"
    /\ \E i \in 1..Len(Steps) :
          /\ Steps[i].class = "source_deleted"
          /\ Steps[i].result = "Ok"
          /\ \E d \in DestsOf(i) : exists(files, d)

(* C6: a create/modify event on a destination that is no source makes no   *)
(* desync call when the destination was recorded in the Recency Guard less *)
(* than 2 seconds before, and otherwise makes exactly one, naming the      *)
(* destination and a source that lists it.                                 *)
C6_RecencyWindow ==
    \A i \in DestinationSteps :
        LET d == Steps[i].path
            rs == Steps[i].before.recently_synced
        IN IF d \in DOMAIN rs /\ rs[d] < 2
           THEN DesyncNotes(i) = {}
           ELSE /\ Len(Steps[i].notes) = 1
                /\ DesyncNotes(i) = {1}
                /\ Steps[i].notes[1].subject = d
                /\ Steps[i].notes[1].source \in DOMAIN Steps[i].before.config
                /\ IsIn(d, Steps[i].before.config[Steps[i].notes[1].source])

(* A destination recorded in the guard 2 seconds or more ago, and still in *)
(* it, got a desync warning.                                               *)
C6_Witness ==
    \E i \in DestinationSteps :
        /\ Steps[i].path \in DOMAIN Steps[i].before.recently_synced
        /\ Steps[i].before.recently_synced[Steps[i].path] >= 2
        /\ DesyncNotes(i) = {1}

(* C7: in a create/modify event whose store was loaded, every path that is *)
(* a tracked source has been propagated, and every destination path that   *)
(* is not suppressed by the Recency Guard has got its desync call, also    *)
(* after a path that failed.                                               *)
C7_LaterPathsHandled ==
    (Changed /\ last_event.loaded)
    => \A k \in 1..Len(last_event.event.paths) :
         LET p == last_event.event.paths[k]
         IN /\ p \in DOMAIN config => (k <= Len(Steps) /\ Steps[k].class = "sync")
            /\ ( /\ p \notin DOMAIN config
                 /\ p \in DOMAIN reverse_mappings
                 /\ ~(p \in DOMAIN recently_synced /\ recently_synced[p] < 2) )
               => (k <= Len(Steps) /\ DesyncNotes(k) # {})

(* C8: an existing destination is overwritten by a propagation only when   *)
(* the source had no snapshot or the destination's content equalled the    *)
(* snapshot, an empty snapshot included.                                   *)
C8_VacuousOnlyWithoutSnapshot ==
    \A i \in Propagations :
        \A d \in DestsOf(i) :
            (exists(Steps[i].before.files, d) /\ IsIn(d, Steps[i].synced))
            => (~Steps[i].had_snapshot \/ Steps[i].before.files[d] = Steps[i].old)

(* C9: a create/modify event on a destination that is no source changes    *)
(* no file, and leaves the mapping, the store, the Content Snapshot Cache  *)
(* and the Recency Guard as they were, with or without a warning.          *)
C9_DesyncNoCorrection ==
    \A i \in DestinationSteps :
        /\ After(i).files = Steps[i].before.files
        /\ After(i).config = Steps[i].before.config
        /\ After(i).store = Steps[i].before.store
        /\ After(i).last_known_content = Steps[i].before.last_known_content
        /\ After(i).recently_synced = Steps[i].before.recently_synced

(* A desync warning was raised for a destination whose content differs     *)
(* from its source's.                                                      *)
C9_Witness ==
    \E i \in DestinationSteps :
        LET d == Steps[i].path
            s == Steps[i].before.reverse_mappings[d]
        IN /\ DesyncNotes(i) = {1}
           /\ exists(files, d) /\ exists(files, s)
           /\ files[d] # files[s]

(* C10: when an event that propagated a source without fault is delivered  *)
(* again with nothing changed in between, the second propagation leaves    *)
(* every file as the first left it and lists as desynced no destination    *)
(* the first did not.                                                      *)
C10_Idempotent ==
    [][ ( /\ last_event'.again
          /\ 1 \in Propagations
          /\ Len(last_event'.steps) = 1
          /\ last_event'.steps[1].propagated )
        => /\ files' = files
           /\ \A d \in Range(last_event'.steps[1].desynced) :
                  IsIn(d, Steps[1].desynced) ]_vars

(* The steps in which sync_file could not read a tracked source: the file  *)
(* is gone, or its read fails.                                             *)
ReadFailures ==
    {i \in 1..Len(Steps) :
        /\ Steps[i].class = "sync"
        /\ Steps[i].path \in DOMAIN Steps[i].before.config
        /\ \/ Steps[i].path \in last_event.fault.read
           \/ ~exists(Steps[i].before.files, Steps[i].path)}

(* C11: when the changed source cannot be read, its propagation changes    *)
(* no file, leaves the Content Snapshot Cache and the Recency Guard as     *)
(* they were, and makes no notifier call.                                  *)
C11_ReadFailureNoEffect ==
    \A i \in ReadFailures :
        /\ ~Steps[i].propagated
        /\ Steps[i].result = "Err"
        /\ Steps[i].notes = <<>>
        /\ After(i).files = Steps[i].before.files
        /\ After(i).last_known_content = Steps[i].before.last_known_content
        /\ After(i).recently_synced = Steps[i].before.recently_synced

(* The read of an existing source failed while its content differed from   *)
(* the snapshot and one of its destinations was missing.                   *)
C11_Witness ==
    \E i \in ReadFailures :
        LET s == Steps[i].path
            w == Steps[i].before
        IN /\ s \in last_event.fault.read
           /\ exists(w.files, s)
           /\ s \in DOMAIN w.last_known_content
           /\ w.files[s] # w.last_known_content[s]
           /\ \E d \in DestsOf(i) : ~exists(w.files, d)

(* C12: in a propagation, a destination that exists and cannot be read     *)
(* keeps its content and is not listed as synced, whatever the snapshot    *)
(* is, and every destination of the source is classified.                  *)
C12_UnreadableSkipped ==
    \A i \in Propagations :
        /\ Len(Steps[i].synced) + Len(Steps[i].desynced) + Len(Steps[i].failed)
               = Len(Steps[i].before.config[Steps[i].path])
        /\ \A d \in DestsOf(i) :
               (exists(Steps[i].before.files, d) /\ d \in last_event.fault.read)
               => /\ exists(After(i).files, d)
                  /\ After(i).files[d] = Steps[i].before.files[d]
                  /\ ~IsIn(d, Steps[i].synced)

(* C13: after a propagation the Content Snapshot Cache holds, for the      *)
(* source, the content that was read, which is the content of the file.    *)
C13_SnapshotUpdated ==
    \A i \in Propagations :
        /\ Steps[i].new = Steps[i].before.files[Steps[i].path]
        /\ Steps[i].path \in DOMAIN After(i).last_known_content
        /\ After(i).last_known_content[Steps[i].path] = Steps[i].new

(* A propagation that wrote no destination replaced a snapshot by a        *)
(* different content.                                                      *)
C13_Witness ==
    \E i \in Propagations :
        /\ Steps[i].had_snapshot
        /\ Steps[i].old # Steps[i].new
        /\ Steps[i].synced = <<>>
        /\ Steps[i].desynced # <<>>
        /\ After(i).last_known_content[Steps[i].path] = Steps[i].new

(* C14: a propagation makes one sync summary call when a destination was   *)
(* synced or skipped as desynced and none otherwise; the call carries the  *)
(* number of destinations written and the number skipped; every            *)
(* destination counted as synced holds the new content and every one       *)
(* counted as desynced still exists; and with destinations [b, c], b equal *)
(* to the snapshot and c different from it, and no fault, the summary      *)
(* reports 1 synced and 1 desynced.                                        *)
C14_SummaryCounts ==
    \A i \in Propagations :
        LET n == Steps[i].notes
            w == Steps[i].before
        IN /\ IF Len(Steps[i].synced) + Len(Steps[i].desynced) > 0
              THEN /\ Len(n) = 1
                   /\ n[1].type = "sync"
                   /\ n[1].subject = Steps[i].path
                   /\ n[1].synced = Len(Steps[i].synced)
                   /\ n[1].desynced = Len(Steps[i].desynced)
              ELSE n = <<>>
           /\ \A d \in Range(Steps[i].synced) :
                  exists(After(i).files, d) /\ After(i).files[d] = Steps[i].new
           /\ \A d \in Range(Steps[i].desynced) : exists(After(i).files, d)
           /\ ( /\ w.config[Steps[i].path] = <<"b", "c">>
                /\ last_event.fault = NoFault
                /\ Steps[i].had_snapshot
                /\ exists(w.files, "b") /\ w.files["b"] = Steps[i].old
                /\ exists(w.files, "c") /\ w.files["c"] # Steps[i].old )
              => (Len(n) = 1 /\ n[1].synced = 1 /\ n[1].desynced = 1)

(* C15: every desync and source-deleted call is critical and never         *)
(* dismissed (timeout 0); every sync summary call is not critical and has  *)
(* a timeout above 0; there is no other kind of call.                      *)
C15_UrgencyClasses ==
    \A n \in NotePositions :
        LET note == Steps[n[1]].notes[n[2]]
        IN /\ note.type \in {"sync", "desync", "source_deleted"}
           /\ note.type \in {"desync", "source_deleted"}
                  => (note.urgency = "critical" /\ note.timeout = 0)
           /\ note.type = "sync"
                  => (note.urgency # "critical" /\ note.timeout > 0)

(* One event made a sync summary call and a desync call. *)
C15_Witness ==
    /\ \E n \in NotePositions : Steps[n[1]].notes[n[2]].type = "sync"
    /\ \E n \in NotePositions : Steps[n[1]].notes[n[2]].type = "desync"

(* C16: an event whose load of the store fails returns Err having handled  *)
(* no path: the mapping, the Reverse Index, the Content Snapshot Cache,    *)
(* the Recency Guard, the disk and the store are as they were.             *)
C16_LoadFailureNoEffect ==
    (last_event # NoEvent /\ last_event.fault.load)
    => /\ last_event.result = "Err"
       /\ ~last_event.loaded
       /\ Steps = <<>>
       /\ Current = last_event.start

(* The load failed for an event on an existing tracked source with a       *)
(* missing destination, while the Recency Guard held an entry due for      *)
(* purging.                                                                *)
C16_Witness ==
    /\ last_event # NoEvent /\ last_event.fault.load
    /\ \E k \in 1..Len(last_event.event.paths) :
          LET p == last_event.event.paths[k]
          IN /\ p \in DOMAIN store /\ exists(files, p)
             /\ \E d \in Range(store[p]) : ~exists(files, d)
    /\ \E d \in DOMAIN recently_synced : recently_synced[d] >= PurgeWindow

(* The events the channel of the echo specification can hold. *)
EchoEvents ==
    {Event(FALSE, "Modify", <<p>>) : p \in Paths} \cup {Event(TRUE, "Error", <<>>)}

(* C17: whatever handle_event returned, the loop goes back to waiting for  *)
(* the next event, and the event at the head of the channel is received    *)
(* and handled.                                                            *)
C17_LoopNeverExits ==
    /\ (last_event # NoEvent) ~> (last_event = NoEvent)
    /\ Received =>
           \A ev \in EchoEvents :
               (queue # <<>> /\ Head(queue).event = ev)
                   ~> (last_event # NoEvent /\ last_event.event = ev)

(* handle_event has returned Err while an event waits in the channel. *)
C17_Witness ==
    /\ last_event # NoEvent
    /\ last_event.result = "Err"
    /\ queue # <<>>

(* The handling, in the next state, of the event that reports the          *)
(* reconciler's own write of a destination makes no desync call.           *)
NoWarningForEcho ==
    \A i \in 1..Len(last_event'.steps) :
        \A j \in 1..Len(last_event'.steps[i].notes) :
            last_event'.steps[i].notes[j].type # "desync"

(* C18 as stated: the event of the reconciler's own write of a destination *)
(* leads to no desync warning, whenever it is handled.                     *)
C18_NoEchoWarning_Original ==
    [][ (last_event = NoEvent /\ last_event' # NoEvent
         /\ queue # <<>> /\ Head(queue).own)
        => NoWarningForEcho ]_vars

(* C18 amended: the same for an event handled less than 2 seconds after    *)
(* the write.                                                              *)
C18_NoEchoWarning ==
    [][ (last_event = NoEvent /\ last_event' # NoEvent
         /\ queue # <<>> /\ Head(queue).own /\ Head(queue).age < 2)
        => NoWarningForEcho ]_vars

(* The event of an own write of a destination has been handled and was     *)
(* suppressed by the Recency Guard.                                        *)
C18_Witness ==
    /\ last_event # NoEvent
    /\ Len(Steps) = 1
    /\ Steps[1].class = "suppressed"
    /\ Steps[1].path \in DOMAIN recently_synced
    /\ files[Steps[1].path] = files[reverse_mappings[Steps[1].path]]

(* C19: when no handling meets a fault, the channel is empty from some     *)
(* time on: the one edit of a source has led to finitely many writes.      *)
C19_NoFeedbackLoop ==
    (Received /\ [](last_event.fault = NoFault)) => <>[](queue = <<>>)

(* The destinations of the sources whose removal the event just handled    *)
(* reported.                                                               *)
FormerDestinations ==
    UNION { DestsOf(i) : i \in {j \in 1..Len(Steps) : Steps[j].class = "source_deleted"} }

(* C20: when the event handled after a source-removal event is a create or *)
(* modify event on a former destination of that source, it makes no        *)
(* notifier call, changes no file and leaves the in-memory mapping and the *)
(* store as they were.                                                     *)
C20_FormerDestinationNoOp ==
    [][ ( /\ last_event # NoEvent
          /\ last_event.event.kind = "Remove"
          /\ last_event' # NoEvent
          /\ last_event'.event.kind \in {"Create", "Modify"}
          /\ last_event'.event.paths[1] \in FormerDestinations )
        => /\ \A i \in 1..Len(last_event'.steps) : last_event'.steps[i].notes = <<>>
           /\ files' = files
           /\ config' = config
           /\ store' = store ]_vars

(* The steps of a Remove event on a path that is no tracked source. *)
RemovedOther ==
    {i \in 1..Len(Steps) :
        /\ last_event.event.kind = "Remove"
        /\ Steps[i].path \notin DOMAIN Steps[i].before.config}

(* A Remove event on a path that is no source makes no notifier call and   *)
(* leaves the watcher, the disk and the store as they were.                *)
RemovedOtherNoAction ==
    \A i \in RemovedOther :
        /\ Steps[i].notes = <<>>
        /\ Steps[i].result = "Ok"
        /\ After(i) = Steps[i].before

(* C21 as stated: no action for a removed destination or untracked path,   *)
(* and a propagation of the owning source leaves every destination that    *)
(* was missing in existence, with the new content.                         *)
C21_RemovedDestination_Original ==
    /\ RemovedOtherNoAction
    /\ \A i \in Propagations :
           \A d \in DestsOf(i) :
               ~exists(Steps[i].before.files, d)
               => (exists(After(i).files, d) /\ After(i).files[d] = Steps[i].new)

(* C21 amended: the same, the destination being recreated when its write   *)
(* succeeds.                                                               *)
C21_RemovedDestination ==
    /\ RemovedOtherNoAction
    /\ \A i \in Propagations :
           \A d \in DestsOf(i) :
               (~exists(Steps[i].before.files, d) /\ ~IsIn(d, Steps[i].failed))
               => (exists(After(i).files, d) /\ After(i).files[d] = Steps[i].new)

(* A Remove event reported a destination that is gone from the disk while  *)
(* its source is still there.                                              *)
C21_Witness ==
    \E i \in RemovedOther :
        LET d == Steps[i].path
        IN /\ d \in DOMAIN reverse_mappings
           /\ ~exists(files, d)
           /\ exists(files, reverse_mappings[d])
           /\ d \in Range(store[reverse_mappings[d]])

(* C22: every create, modify or remove event that the watch backend        *)
(* delivers and whose load succeeds classifies its first path with the     *)
(* mapping equal to the store and with a Reverse Index whose keys are the  *)
(* paths some source lists, each mapped to a source that lists it.         *)
C22_ReloadAndRebuild ==
    /\ ( /\ last_event.event.kind \in {"Create", "Modify", "Remove"}
         /\ ~last_event.event.err
         /\ ~last_event.fault.load ) => last_event.loaded
    /\ (last_event.loaded /\ Len(Steps) >= 1)
       => LET w == Steps[1].before
          IN /\ w.config = last_event.start.store
             /\ DOMAIN w.reverse_mappings
                    = UNION {Range(w.config[s]) : s \in DOMAIN w.config}
             /\ \A d \in DOMAIN w.reverse_mappings :
                    /\ w.reverse_mappings[d] \in DOMAIN w.config
                    /\ IsIn(d, w.config[w.reverse_mappings[d]])

(* An event started with a mapping and an index that differed from the     *)
(* store, and classified its first path with the reloaded ones.            *)
C22_Witness ==
    /\ last_event.loaded /\ Len(Steps) >= 1
    /\ last_event.start.config # last_event.start.store
    /\ last_event.start.reverse_mappings # Steps[1].before.reverse_mappings
    /\ Steps[1].before.config = last_event.start.store

(* C24: an event whose load succeeds classifies its first path with the    *)
(* Recency Guard it started with less the entries 5 seconds old or older,  *)
(* and no path of it sees an entry that old.                               *)
C24_PurgeWindow ==
    (last_event.loaded /\ Len(Steps) >= 1)
    => LET rs0 == last_event.start.recently_synced
           rs1 == Steps[1].before.recently_synced
       IN /\ DOMAIN rs1 = {p \in DOMAIN rs0 : rs0[p] < 5}
          /\ \A p \in DOMAIN rs1 : rs1[p] = rs0[p]
          /\ \A i \in 1..Len(Steps) :
                 \A p \in DOMAIN Steps[i].before.recently_synced :
                     Steps[i].before.recently_synced[p] < 5

(* An event started with an entry 5 seconds old, which it purged, and a    *)
(* younger one, which it kept.                                             *)
C24_Witness ==
    /\ last_event.loaded /\ Len(Steps) >= 1
    /\ \E p, q \in DOMAIN last_event.start.recently_synced :
          /\ last_event.start.recently_synced[p] >= 5
          /\ last_event.start.recently_synced[q] < 5
          /\ p \notin DOMAIN Steps[1].before.recently_synced
          /\ q \in DOMAIN Steps[1].before.recently_synced

(* C25: after an event has been handled, every key of the Content Snapshot *)
(* Cache is a source of the in-memory mapping.                             *)
C25_CacheBounded ==
    (last_event # NoEvent /\ last_event.loaded)
    => DOMAIN last_known_content \subseteq DOMAIN config

(* No path is at once a source and a member of a destination list. *)
Disjoint(mappings) ==
    \A s \in DOMAIN mappings :
        \A t \in DOMAIN mappings : s \notin Range(mappings[t])

(* C23: after any sequence of copy, untrack and remove commands on an      *)
(* empty store the store is disjoint, and a copy command whose mapping     *)
(* would break disjointness returned an error and left the store as it     *)
(* was.                                                                    *)
C23_CliDisjoint ==
    /\ Disjoint(store)
    /\ ( /\ cli.command = "copy"
         /\ ~Disjoint(add_mapping(cli.before.store, cli.file, cli.destination)) )
       => (cli.result = "Err" /\ store = cli.before.store)

(* C26: every path of a create or modify event that is a source of the    *)
(* mapping is handed to sync_file and raises no desync warning, also when  *)
(* the Reverse Index holds it; a path is handled as a candidate desync, as *)
(* suppressed or with a desync warning, only when it is no source.         *)
C26_SourceFirst ==
    Changed =>
        \A i \in 1..Len(Steps) :
            /\ Steps[i].path \in DOMAIN Steps[i].before.config
               => (Steps[i].class = "sync" /\ DesyncNotes(i) = {})
            /\ (Steps[i].class \in {"desync", "suppressed"} \/ DesyncNotes(i) # {})
               => Steps[i].path \notin DOMAIN Steps[i].before.config

(* A modify event on a source that the Reverse Index lists as a            *)
(* destination of another source, not written by the watcher in the last   *)
(* seconds, was propagated.                                                *)
C26_Witness ==
    /\ Changed
    /\ \E i \in Propagations :
          LET w == Steps[i].before
          IN /\ Steps[i].path \in DOMAIN w.config
             /\ Steps[i].path \in DOMAIN w.reverse_mappings
             /\ w.reverse_mappings[Steps[i].path] # Steps[i].path
             /\ ~recently(w.recently_synced, Steps[i].path)

(* C28: the first propagation of a source after the start, the one of the  *)
(* event of its edit, leaves every destination as it is that existed and   *)
(* differed from the source's content at startup, which is the snapshot    *)
(* taken when the watcher was constructed.                                 *)
C28_StartupDriftKept ==
    [][ ( /\ last_event = NoEvent
          /\ last_event' # NoEvent
          /\ queue # <<>>
          /\ ~Head(queue).own
          /\ Head(queue).event.kind = "Modify" )
        => LET s == Head(queue).event.paths[1]
           IN \A d \in Range(store[s]) :
                  ( /\ d # s
                    /\ exists(files, d)
                    /\ s \in DOMAIN last_known_content
                    /\ files[d] # last_known_content[s] )
                  => (exists(files', d) /\ files'[d] = files[d]) ]_vars

(* C30: when an event has been handled, the Reverse Index is the index     *)
(* that a rebuild from the in-memory mapping gives, in one of the orders   *)
(* in which the mapping may be iterated.                                   *)
C30_IndexDerived ==
    (last_event # NoEvent /\ last_event.loaded)
    => \E order \in Orders(DOMAIN config) :
           reverse_mappings = update_reverse_mappings(config, order)

(* The sources the sync command found on the disk and could read. *)
Readable(s) == exists(cli.before.files, s) /\ s \notin cli.fault.read

(* The writes the sync command made for source s. *)
WritesFor(s) == {k \in 1..Len(cli.log) : cli.log[k].source = s}

(* The writes of the sync command that succeeded and went to path p. *)
WritesTo(p) == {k \in 1..Len(cli.log) : cli.log[k].ok /\ cli.log[k].dest = p}

(* C29: a sync command whose load succeeded made exactly one write for     *)
(* every destination of every existing, readable source, with the content  *)
(* the source had, whatever the destination held, and no write for any     *)
(* other source; a path holds afterwards what the last successful write to *)
(* it wrote, and what it held before when there was none; synced_count is  *)
(* the number of successful writes and error_count the number of failed    *)
(* writes plus the number of missing or unreadable sources.                *)
C29_SyncAll ==
    (cli.command = "sync" /\ cli.result = "Ok")
    => /\ \A s \in DOMAIN cli.before.store :
              IF Readable(s)
              THEN /\ Cardinality(WritesFor(s)) = Len(cli.before.store[s])
                   /\ \A d \in Range(cli.before.store[s]) :
                          \E k \in WritesFor(s) :
                              /\ cli.log[k].dest = d
                              /\ cli.log[k].content = cli.before.files[s]
                              /\ cli.log[k].ok = (d \notin cli.fault.write)
              ELSE WritesFor(s) = {}
       /\ \A p \in Paths :
              IF WritesTo(p) = {}
              THEN /\ exists(cli.after, p) = exists(cli.before.files, p)
                   /\ exists(cli.after, p) => cli.after[p] = cli.before.files[p]
              ELSE /\ exists(cli.after, p)
                   /\ \E k \in WritesTo(p) :
                          /\ \A j \in WritesTo(p) : j <= k
                          /\ cli.after[p] = cli.log[k].content
       /\ cli.synced_count = Cardinality({k \in 1..Len(cli.log) : cli.log[k].ok})
       /\ cli.error_count
              = Cardinality({k \in 1..Len(cli.log) : ~cli.log[k].ok})
                + Cardinality({s \in DOMAIN cli.before.store : ~Readable(s)})

(* A sync command overwrote a destination that held other content than its *)
(* source, passed over a missing source and counted both.                  *)
C29_Witness ==
    /\ cli.command = "sync" /\ cli.result = "Ok"
    /\ cli.synced_count >= 1
    /\ cli.error_count >= 1
    /\ \E s \in DOMAIN cli.before.store : ~exists(cli.before.files, s)
    /\ \E k \in 1..Len(cli.log) :
          /\ cli.log[k].ok
          /\ exists(cli.before.files, cli.log[k].dest)
          /\ cli.before.files[cli.log[k].dest] # cli.log[k].content
          /\ cli.after[cli.log[k].dest] = cli.log[k].content

(* The paths of the events that wait in channel q. *)
QueuedPaths(q) ==
    UNION { Range(q[k].event.paths) : k \in 1..Len(q) }

(* C27: when the loop starts the watched set is the set of tracked paths   *)
(* that exist; no step of the session changes it, and every event that     *)
(* waits in the channel after a step is about a path of it.                *)
C27_WatchedFixed ==
    /\ watcher = watched(store, files)
    /\ [][ /\ watcher' = watcher
           /\ QueuedPaths(queue') \subseteq watcher ]_vars

(* A destination that did not exist when the loop started was created by a *)
(* propagation and is not watched, and a mapping was added by a copy       *)
(* command whose source is not watched either.                             *)
C27_Witness ==
    /\ last_event # NoEvent
    /\ \E i \in Propagations :
          \E d \in DestsOf(i) :
              /\ ~exists(Steps[i].before.files, d)
              /\ exists(files, d)
              /\ d \notin watcher
    /\ cli.command = "copy" /\ cli.result = "Ok"
    /\ cli.file \in DOMAIN store
    /\ exists(files, cli.file)
    /\ cli.file \notin watcher

(* remove_mapping(d) has just been called right after an add_mapping(s, d) *)
(* that returned Ok on a store that listed d nowhere.                      *)
RoundTrip ==
    /\ cli.command = "remove_mapping"
    /\ cli.previous.command = "add_mapping"
    /\ cli.previous.result = "Ok"
    /\ cli.previous.file = cli.file
    /\ cli.file \notin Destinations(cli.previous.before)

(* No source key has an empty destination list. *)
NoEmptyList == \A s \in DOMAIN store : store[s] # <<>>

(* C37: the remove_mapping of a round trip whose two saves succeed returns *)
(* true and leaves the mapping the add_mapping was called on, and no       *)
(* source key ever has an empty destination list.                          *)
C37_AddRemove ==
    /\ NoEmptyList
    /\ (RoundTrip /\ ~cli.fault.save)
       => (cli.result = "true" /\ store = cli.previous.before)

(* No destination is listed twice, under one source or under two. *)
NoSharedDestination(mappings) ==
    \A e1, e2 \in Listed(mappings) :
        mappings[e1[1]][e1[2]] = mappings[e2[1]][e2[2]] => e1 = e2

(* The diff command has run on the disk that a sync command without errors *)
(* left, on a mapping that is disjoint and shares no destination.          *)
SyncThenDiff ==
    /\ cli.command = "diff"
    /\ cli.result = "Ok"
    /\ cli.previous.result = "Ok"
    /\ cli.previous.error_count = 0
    /\ cli.before.files = cli.previous.after
    /\ Disjoint(cli.before.store)
    /\ NoSharedDestination(cli.before.store)

(* C36: check_diff over all mappings returns no report after a sync        *)
(* without errors, when no file changed in between and the mapping is      *)
(* disjoint and shares no destination.                                     *)
C36_SyncThenDiff == SyncThenDiff => cli.diffs = <<>>

(* The round trip after a sync command that wrote both destinations and    *)
(* changed the disk.                                                       *)
C36_Witness ==
    /\ SyncThenDiff
    /\ cli.previous.synced_count >= 2
    /\ cli.previous.changed
    /\ cli.fault = NoFault
    /\ cli.diffs = <<>>

(* The paths whose file step i created, deleted or gave other content. *)
Touched(i) ==
    {p \in Paths :
        \/ exists(After(i).files, p) # exists(Steps[i].before.files, p)
        \/ /\ exists(After(i).files, p)
           /\ exists(Steps[i].before.files, p)
           /\ After(i).files[p] # Steps[i].before.files[p]}

(* C32: under a disjoint mapping, every file that the handling of a path   *)
(* creates, deletes or changes is a destination of that path, which is a   *)
(* source reported by a create or modify event; no step touches a source,  *)
(* and no step of a Remove event or on a destination touches any file.     *)
C32_WritesOnlyOwnDestinations ==
    \A i \in 1..Len(Steps) :
        Disjoint(Steps[i].before.config)
        => /\ Touched(i) # {}
              => /\ Changed
                 /\ Steps[i].class = "sync"
                 /\ Steps[i].path \in DOMAIN Steps[i].before.config
                 /\ Touched(i) \subseteq Range(Steps[i].before.config[Steps[i].path])
           /\ Touched(i) \cap DOMAIN Steps[i].before.config = {}
           /\ \A p \in Touched(i) : exists(After(i).files, p)

(* A modify event on a source and on one of its destinations was handled   *)
(* under a disjoint mapping: the step of the source wrote a destination    *)
(* that held other content, the step of the destination touched nothing.   *)
C32_Witness ==
    /\ Changed
    /\ Len(Steps) = 2
    /\ Disjoint(Steps[1].before.config)
    /\ Steps[1].class = "sync"
    /\ Touched(1) # {}
    /\ \E p \in Touched(1) : exists(Steps[1].before.files, p)
    /\ Steps[2].class \in {"desync", "suppressed"}
    /\ Touched(2) = {}

(* C33: in a propagation, a destination that exists, can be read and holds *)
(* the content just read from the source is not listed as desynced.        *)
C33_UpToDateNotDesynced ==
    \A i \in Propagations :
        \A d \in DestsOf(i) :
            ( /\ exists(Steps[i].before.files, d)
              /\ d \notin last_event.fault.read
              /\ Steps[i].before.files[d] = Steps[i].new )
            => ~IsIn(d, Steps[i].desynced)

(* The Recency Guard entries that step i added or changed. *)
Refreshed(i) ==
    {p \in DOMAIN After(i).recently_synced :
        \/ p \notin DOMAIN Steps[i].before.recently_synced
        \/ After(i).recently_synced[p] # Steps[i].before.recently_synced[p]}

(* C34: the handling of a path adds or changes a Recency Guard entry only  *)
(* for a destination that this propagation wrote with success, with the    *)
(* time of the write; the reload adds and changes none; and a step that is *)
(* no handling of an event adds none.                                      *)
C34_RecencyOnlyAtWrite ==
    /\ [](\A i \in 1..Len(Steps) :
            /\ \A p \in Refreshed(i) :
                  /\ i \in Propagations
                  /\ IsIn(p, Steps[i].synced)
                  /\ After(i).recently_synced[p] = 0
                  /\ exists(After(i).files, p)
                  /\ After(i).files[p] = Steps[i].new
            /\ \A p \in Paths :
                  (IsIn(p, Steps[i].failed) /\ ~IsIn(p, Steps[i].synced))
                  => p \notin Refreshed(i))
    /\ [](Len(Steps) >= 1
          => \A p \in DOMAIN Steps[1].before.recently_synced :
                 /\ p \in DOMAIN last_event.start.recently_synced
                 /\ Steps[1].before.recently_synced[p]
                        = last_event.start.recently_synced[p])
    /\ [][ \A p \in DOMAIN recently_synced' :
               p \notin DOMAIN recently_synced
               => /\ last_event' # NoEvent
                  /\ \E i \in 1..Len(last_event'.steps) :
                         IsIn(p, last_event'.steps[i].synced) ]_vars

(* A propagation wrote one destination, which got an entry, and failed to  *)
(* write another, which has none.                                          *)
C34_Witness ==
    \E i \in Propagations :
        /\ Steps[i].synced # <<>>
        /\ Steps[i].failed # <<>>
        /\ \E p \in Refreshed(i) : IsIn(p, Steps[i].synced)
        /\ \E p \in Range(Steps[i].failed) : p \notin DOMAIN After(i).recently_synced

(* C35: the handling of the event of a write that the sync command made    *)
(* raises no desync warning.                                               *)
C35_NoWarningForManualSync ==
    \A i \in 1..Len(Steps) :
        ( /\ cli.command = "sync"
          /\ \E k \in 1..Len(cli.log) :
                 cli.log[k].ok /\ cli.log[k].dest = Steps[i].path )
        => DesyncNotes(i) = {}

(* C31: when the handling of a Remove event has finished, the entry that a *)
(* copy command added to the store the handling had loaded is in the       *)
(* store.                                                                  *)
C31_NoLostUpdate ==
    ( /\ last_event # NoEvent
      /\ last_event.event.kind = "Remove"
      /\ last_event.result # "Pending"
      /\ cli.command = "copy"
      /\ cli.result = "Ok"
      /\ cli.before.store = last_event.start.store )
    => /\ cli.file \in DOMAIN store
       /\ cli.destination \in Range(store[cli.file])

====
